---- MODULE Spec2Model ----
(***************************************************************************)
(* Model of the az-escrow ink! contract (src/lib.rs): the vendor registry, *)
(* the listing and order ledgers, and the six public messages.  Every      *)
(* message is one atomic transaction; `pre` and `last` record the state    *)
(* before the most recent call and the call itself, so that a property of  *)
(* one call is a state predicate.                                          *)
(***************************************************************************)
EXTENDS Integers, Naturals, Sequences, FiniteSets, TLC

\* ---- bounds of the model -------------------------------------------------
\* Native currency each account holds at construction (Balance is u128; the
\* total supply of the model is far below 2^128, so no addition can wrap).
InitialBalance == 2
\* Largest amount argument a caller passes to create_order / withdraw.
MaxAmount == 2
\* Cap on the number of orders created (the order counter is a u64).
MaxOrders == 1
\* Stand-in for u32::MAX, the capacity of the listing ledger (lib.rs:231).
U32_MAX == 2
\* Stand-in for u64::MAX, the width of the order counter (lib.rs:144).
U64_MAX == 31
\* Longest order ledger, largest page and largest size index is asked about.
MaxLedgerLength == 10
MaxPage == 7
MaxSize == 5
\* Number of distinct payment_verification strings a buyer submits.
MaxEvidence == 1
\* The settlement and dispute collaborators act on orders 0..MaxExternalOrderId.
MaxExternalOrderId == 0

\* ---- values ----------------------------------------------------------------
Accounts == {"alice", "bob"}
Contract == "contract"
\* payment_verification strings, named by their index
Evidence == 1..MaxEvidence
\* Option<T>: None and Some(x)
None == <<>>
Some(x) == <<x>>

Open == 0
PendingVerification == 1
Finalised == 2
Cancelled == 3
Disputed == 4

VARIABLES admin, vendors, listings, orders, balance, pre, last
vars == <<admin, vendors, listings, orders, balance, pre, last>>

\* The persisted state of the contract plus the native balances.
State == [admin |-> admin, vendors |-> vendors, listings |-> listings,
          orders |-> orders, balance |-> balance]

\* ---- ink::storage::Mapping -------------------------------------------------
Mapping_default == <<>>
Mapping_contains(m, k) == k \in DOMAIN m
Mapping_insert(m, k, v) == [x \in (DOMAIN m) \cup {k} |-> IF x = k THEN v ELSE m[x]]

\* ---- integer arithmetic ------------------------------------------------------
\* `+= 1` on a counter of the given width.  The sum that does not fit either
\* panics (a build with overflow checks) or wraps (a build without them).
add_overflows(a, b, max) == a + b > max
wrapping_add(a, b, max) == (a + b) % (max + 1)
wrapping_mul(a, b, max) == Some((a * b) % (max + 1))
checked_mul(a, b, max) == IF a * b > max THEN None ELSE Some(a * b)
checked_sub(a, b) == IF b > a THEN None ELSE Some(a - b)
saturating_sub(a, b) == IF b > a THEN 0 ELSE a - b
is_none(o) == o = None
unwrap(o) == o[1]

\* What index hands back: the records pushed, or the panic of an unwrap on a
\* key that holds no record.
Returned(records) == [result |-> "Ok", returned |-> records]
UnwrapPanic == [result |-> "Panic", returned |-> <<>>]

\* for i in (starting_index..=ending_index).rev() { push(values.get(i).unwrap()) }
index_collect(values, starting_index, ending_index) ==
    LET n == IF ending_index >= starting_index
             THEN ending_index - starting_index + 1 ELSE 0
        key(j) == ending_index - (j - 1)
    IN  IF \E j \in 1..n : ~Mapping_contains(values, key(j))
        THEN UnwrapPanic
        ELSE Returned([j \in 1..n |-> values[key(j)]])

\* ---- Listings --------------------------------------------------------------
Listings_create_NoLength(self, value) ==
    [values |-> Mapping_insert(self.values, self.length, value),
     length |-> self.length]

Listings_create(self, value) ==
    [values |-> Mapping_insert(self.values, self.length, value),
     length |-> IF Mapping_contains(self.values, self.length)
                THEN self.length ELSE wrapping_add(self.length, 1, U32_MAX)]

\* The increment of Listings::create does not fit the counter.
Listings_create_overflows(self) ==
    /\ ~Mapping_contains(self.values, self.length)
    /\ add_overflows(self.length, 1, U32_MAX)

Listings_index(self, page, size) ==
    IF self.length = 0
    THEN Returned(<<>>)
    ELSE LET listings_to_skip == checked_mul(page, size, U32_MAX) IN
         IF is_none(listings_to_skip)
         THEN Returned(<<>>)
         ELSE LET ending_index_wrapped ==
                      checked_sub(self.length, unwrap(listings_to_skip)) IN
              IF is_none(ending_index_wrapped)
              THEN Returned(<<>>)
              ELSE LET ending_index == unwrap(ending_index_wrapped)
                       starting_index == saturating_sub(ending_index, size)
                   IN  index_collect(self.values, starting_index, ending_index)

Listings_update_AtLength(self, value) ==
    [self EXCEPT !.values = Mapping_insert(@, self.length, value)]

Listings_update(self, value) ==
    [self EXCEPT !.values = Mapping_insert(@, value.id, value)]

\* ---- Orders ----------------------------------------------------------------
Orders_create_NoLength(self, value) ==
    [values |-> Mapping_insert(self.values, self.length, value),
     length |-> self.length]

Orders_create(self, value) ==
    [values |-> Mapping_insert(self.values, self.length, value),
     length |-> IF Mapping_contains(self.values, self.length)
                THEN self.length ELSE wrapping_add(self.length, 1, U64_MAX)]

\* The increment of Orders::create does not fit the counter.
Orders_create_overflows(self) ==
    /\ ~Mapping_contains(self.values, self.length)
    /\ add_overflows(self.length, 1, U64_MAX)

Orders_index_WrappingMul(self, page, size) ==
    IF self.length = 0
    THEN Returned(<<>>)
    ELSE LET orders_to_skip == wrapping_mul(page, size, U64_MAX) IN
         LET ending_index_wrapped ==
                 checked_sub(self.length, unwrap(orders_to_skip)) IN
         IF is_none(ending_index_wrapped)
         THEN Returned(<<>>)
         ELSE LET ending_index == unwrap(ending_index_wrapped)
                  starting_index == saturating_sub(ending_index, size)
              IN  index_collect(self.values, starting_index, ending_index)

Orders_index(self, page, size) ==
    IF self.length = 0
    THEN Returned(<<>>)
    ELSE LET orders_to_skip == checked_mul(page, size, U64_MAX) IN
         IF is_none(orders_to_skip)
         THEN Returned(<<>>)
         ELSE LET ending_index_wrapped ==
                      checked_sub(self.length, unwrap(orders_to_skip)) IN
              IF is_none(ending_index_wrapped)
              THEN Returned(<<>>)
              ELSE LET ending_index == unwrap(ending_index_wrapped)
                       starting_index == saturating_sub(ending_index, size)
                   IN  index_collect(self.values, starting_index, ending_index)

Orders_update(self, value) ==
    [self EXCEPT !.values = Mapping_insert(@, value.id, value)]

\* ---- results ---------------------------------------------------------------
\* What a message body hands back: the state it has written and its result.
Ok(s) == [state |-> s, result |-> "Ok"]
Err(s, e) == [state |-> s, result |-> e]
Panic(s) == [state |-> s, result |-> "Panic"]

TypedErrors == {"AmountUnavailable", "InsufficientFunds",
                "ListingCanOnlyBeCreatedByAVendor", "ListingLimitReached",
                "ListingNotFound", "OrderCancelled", "OrderFinalised",
                "OrderNotFound", "VendorAlreadyExists", "Unauthorised"}

\* ---- Escrow::new -----------------------------------------------------------
\* The owner Self::default() leaves when _init_with_owner is not called.
ZeroAccount == ""

new_DefaultOwner(caller) ==
    [admin |-> ZeroAccount,
     vendors |-> {},
     listings |-> [values |-> Mapping_default, length |-> 0],
     orders |-> [values |-> Mapping_default, length |-> 0],
     balance |-> [a \in Accounts \cup {Contract} |->
                     IF a = Contract THEN 0 ELSE InitialBalance]]

new(caller) ==
    [admin |-> caller,
     vendors |-> {},
     listings |-> [values |-> Mapping_default, length |-> 0],
     orders |-> [values |-> Mapping_default, length |-> 0],
     balance |-> [a \in Accounts \cup {Contract} |->
                     IF a = Contract THEN 0 ELSE InitialBalance]]

config(s) == [admin |-> s.admin]

\* ---- the host (ink! dispatch and the native transfer primitive) ------------
\* A payable call: the host moves the attached value from the caller to the
\* contract before the message body runs.
env_transferred_value(s, caller, value) ==
    [s EXCEPT !.balance = [@ EXCEPT ![caller] = @ - value,
                                    ![Contract] = @ + value]]

\* self.env().transfer(dest, amount): is_err when the contract does not hold
\* the funds, or when the host refuses the transfer (minimum-balance rule).
env_transfer_is_err(s, amount, host_refuses) ==
    host_refuses \/ s.balance[Contract] < amount

env_transfer(s, dest, amount) ==
    [s EXCEPT !.balance = [@ EXCEPT ![Contract] = @ - amount,
                                    ![dest] = @ + amount]]

\* A message that returns Err or panics is reverted by the host: nothing it
\* wrote, and no value attached to it, is committed.
ink_message_NoRevert(s, out) == out.state

ink_message(s, out) == IF out.result = "Ok" THEN out.state ELSE s

\* ---- Escrow::create_vendor -------------------------------------------------
create_vendor_NoCheck(s, caller) ==
    Ok([s EXCEPT !.vendors = @ \cup {caller}])

create_vendor(s, caller) ==
    IF caller \in s.vendors
    THEN Err(s, "VendorAlreadyExists")
    ELSE Ok([s EXCEPT !.vendors = @ \cup {caller}])

\* ---- Escrow::create_listing ------------------------------------------------
\* overflow_checks: the contract was built with integer overflow checks.
create_listing_VendorCheckFirst(s, caller, overflow_checks) ==
    IF caller \notin s.vendors
    THEN Err(s, "ListingCanOnlyBeCreatedByAVendor")
    ELSE IF s.listings.length = U32_MAX
    THEN Err(s, "ListingLimitReached")
    ELSE LET listing == [id |-> s.listings.length, vendor |-> caller,
                         available_amount |-> 0]
             s1 == [s EXCEPT !.listings = Listings_create(@, listing)]
         IN  IF overflow_checks /\ Listings_create_overflows(s.listings)
             THEN Panic(s1)
             ELSE Ok(s1)

create_listing_NoLimitCheck(s, caller, overflow_checks) ==
    IF caller \notin s.vendors
    THEN Err(s, "ListingCanOnlyBeCreatedByAVendor")
    ELSE LET listing == [id |-> s.listings.length, vendor |-> caller,
                         available_amount |-> 0]
             s1 == [s EXCEPT !.listings = Listings_create(@, listing)]
         IN  IF overflow_checks /\ Listings_create_overflows(s.listings)
             THEN Panic(s1)
             ELSE Ok(s1)

create_listing_AnyCaller(s, caller, overflow_checks) ==
    IF s.listings.length = U32_MAX
    THEN Err(s, "ListingLimitReached")
    ELSE LET listing == [id |-> s.listings.length, vendor |-> caller,
                         available_amount |-> 0]
             s1 == [s EXCEPT !.listings = Listings_create(@, listing)]
         IN  IF overflow_checks /\ Listings_create_overflows(s.listings)
             THEN Panic(s1)
             ELSE Ok(s1)

create_listing(s, caller, overflow_checks) ==
    IF s.listings.length = U32_MAX
    THEN Err(s, "ListingLimitReached")
    ELSE IF caller \notin s.vendors
    THEN Err(s, "ListingCanOnlyBeCreatedByAVendor")
    ELSE LET listing == [id |-> s.listings.length, vendor |-> caller,
                         available_amount |-> 0]
             s1 == [s EXCEPT !.listings = Listings_create(@, listing)]
         IN  IF overflow_checks /\ Listings_create_overflows(s.listings)
             THEN Panic(s1)
             ELSE Ok(s1)

\* ---- Escrow::create_order --------------------------------------------------
\* The Order record built at lib.rs:274-281.
create_order_order_Finalised(s, caller, listing, amount) ==
    [id |-> s.orders.length, buyer |-> caller, vendor |-> listing.vendor,
     amount |-> amount, payment_verification |-> None, status |-> Finalised]

create_order_order(s, caller, listing, amount) ==
    [id |-> s.orders.length, buyer |-> caller, vendor |-> listing.vendor,
     amount |-> amount, payment_verification |-> None, status |-> Open]

create_order_NoAmountCheck(s, caller, listing_id, amount, overflow_checks) ==
    IF ~Mapping_contains(s.listings.values, listing_id)
    THEN Err(s, "ListingNotFound")
    ELSE LET listing == s.listings.values[listing_id] IN
         IF listing.vendor = caller
         THEN Err(s, "Unauthorised")
         ELSE LET updated == [listing EXCEPT !.available_amount = @ - amount]
                  s1 == [s EXCEPT !.listings = Listings_update(@, updated)]
                  order == create_order_order(s1, caller, updated, amount)
                  s2 == [s1 EXCEPT !.orders = Orders_create(@, order)]
              IN  IF overflow_checks /\ Orders_create_overflows(s1.orders)
                  THEN Panic(s2)
                  ELSE Ok(s2)

create_order_NoVendorCheck(s, caller, listing_id, amount, overflow_checks) ==
    IF ~Mapping_contains(s.listings.values, listing_id)
    THEN Err(s, "ListingNotFound")
    ELSE LET listing == s.listings.values[listing_id] IN
         IF amount > listing.available_amount
         THEN Err(s, "AmountUnavailable")
         ELSE LET updated == [listing EXCEPT !.available_amount = @ - amount]
                  s1 == [s EXCEPT !.listings = Listings_update(@, updated)]
                  order == create_order_order(s1, caller, updated, amount)
                  s2 == [s1 EXCEPT !.orders = Orders_create(@, order)]
              IN  IF overflow_checks /\ Orders_create_overflows(s1.orders)
                  THEN Panic(s2)
                  ELSE Ok(s2)

\* create_order that leaves the listing's available_amount as it was: the
\* amount is reserved for the order without being taken from the listing.
create_order_KeepsAvailable(s, caller, listing_id, amount, overflow_checks) ==
    IF ~Mapping_contains(s.listings.values, listing_id)
    THEN Err(s, "ListingNotFound")
    ELSE LET listing == s.listings.values[listing_id] IN
         IF listing.vendor = caller
         THEN Err(s, "Unauthorised")
         ELSE IF amount > listing.available_amount
         THEN Err(s, "AmountUnavailable")
         ELSE LET order == create_order_order(s, caller, listing, amount)
                  s2 == [s EXCEPT !.orders = Orders_create(@, order)]
              IN  IF overflow_checks /\ Orders_create_overflows(s.orders)
                  THEN Panic(s2)
                  ELSE Ok(s2)

create_order(s, caller, listing_id, amount, overflow_checks) ==
    IF ~Mapping_contains(s.listings.values, listing_id)
    THEN Err(s, "ListingNotFound")
    ELSE LET listing == s.listings.values[listing_id] IN
         IF listing.vendor = caller
         THEN Err(s, "Unauthorised")
         ELSE IF amount > listing.available_amount
         THEN Err(s, "AmountUnavailable")
         ELSE LET updated == [listing EXCEPT !.available_amount = @ - amount]
                  s1 == [s EXCEPT !.listings = Listings_update(@, updated)]
                  order == create_order_order(s1, caller, updated, amount)
                  s2 == [s1 EXCEPT !.orders = Orders_create(@, order)]
              IN  IF overflow_checks /\ Orders_create_overflows(s1.orders)
                  THEN Panic(s2)
                  ELSE Ok(s2)

\* ---- Escrow::deposit_into_listing ------------------------------------------
\* `s` is the state the body sees: the attached value is already credited to
\* the contract; `value` is self.env().transferred_value().
deposit_into_listing_WriteFirst(s, caller, id, value) ==
    IF ~Mapping_contains(s.listings.values, id)
    THEN Err(s, "ListingNotFound")
    ELSE LET listing == s.listings.values[id]
             updated == [listing EXCEPT !.available_amount = @ + value]
             s1 == [s EXCEPT !.listings = Listings_update(@, updated)]
         IN  IF listing.vendor # caller
             THEN Err(s1, "Unauthorised")
             ELSE Ok(s1)

deposit_into_listing(s, caller, id, value) ==
    IF ~Mapping_contains(s.listings.values, id)
    THEN Err(s, "ListingNotFound")
    ELSE LET listing == s.listings.values[id] IN
         IF listing.vendor # caller
         THEN Err(s, "Unauthorised")
         ELSE LET updated == [listing EXCEPT !.available_amount = @ + value]
              IN  Ok([s EXCEPT !.listings = Listings_update(@, updated)])

\* ---- Escrow::update_order_payment_verification -----------------------------
update_order_payment_verification_NoCancelled(s, caller, order_id, payment_verification) ==
    IF ~Mapping_contains(s.orders.values, order_id)
    THEN Err(s, "OrderNotFound")
    ELSE LET order == s.orders.values[order_id] IN
         IF order.buyer # caller
         THEN Err(s, "Unauthorised")
         ELSE IF order.status = Finalised
         THEN Err(s, "OrderFinalised")
         ELSE LET updated == [order EXCEPT
                                !.payment_verification = Some(payment_verification),
                                !.status = PendingVerification]
              IN  Ok([s EXCEPT !.orders = Orders_update(@, updated)])

update_order_payment_verification_StatusFirst(s, caller, order_id, payment_verification) ==
    IF ~Mapping_contains(s.orders.values, order_id)
    THEN Err(s, "OrderNotFound")
    ELSE LET order == s.orders.values[order_id] IN
         IF order.status = Finalised
         THEN Err(s, "OrderFinalised")
         ELSE IF order.status = Cancelled
         THEN Err(s, "OrderCancelled")
         ELSE IF order.buyer # caller
         THEN Err(s, "Unauthorised")
         ELSE LET updated == [order EXCEPT
                                !.payment_verification = Some(payment_verification),
                                !.status = PendingVerification]
              IN  Ok([s EXCEPT !.orders = Orders_update(@, updated)])

update_order_payment_verification_ResetsAmount(s, caller, order_id, payment_verification) ==
    IF ~Mapping_contains(s.orders.values, order_id)
    THEN Err(s, "OrderNotFound")
    ELSE LET order == s.orders.values[order_id] IN
         IF order.buyer # caller
         THEN Err(s, "Unauthorised")
         ELSE IF order.status = Finalised
         THEN Err(s, "OrderFinalised")
         ELSE IF order.status = Cancelled
         THEN Err(s, "OrderCancelled")
         ELSE LET updated == [order EXCEPT
                                !.payment_verification = Some(payment_verification),
                                !.status = PendingVerification,
                                !.amount = 0]
              IN  Ok([s EXCEPT !.orders = Orders_update(@, updated)])

update_order_payment_verification(s, caller, order_id, payment_verification) ==
    IF ~Mapping_contains(s.orders.values, order_id)
    THEN Err(s, "OrderNotFound")
    ELSE LET order == s.orders.values[order_id] IN
         IF order.buyer # caller
         THEN Err(s, "Unauthorised")
         ELSE IF order.status = Finalised
         THEN Err(s, "OrderFinalised")
         ELSE IF order.status = Cancelled
         THEN Err(s, "OrderCancelled")
         ELSE LET updated == [order EXCEPT
                                !.payment_verification = Some(payment_verification),
                                !.status = PendingVerification]
              IN  Ok([s EXCEPT !.orders = Orders_update(@, updated)])

\* ---- Escrow::withdraw_from_listing -----------------------------------------
\* host_refuses: the host's answer to the transfer, outside the contract's
\* control.
withdraw_from_listing_NoUpdate(s, caller, id, amount, host_refuses) ==
    IF ~Mapping_contains(s.listings.values, id)
    THEN Err(s, "ListingNotFound")
    ELSE LET listing == s.listings.values[id] IN
         IF listing.vendor # caller
         THEN Err(s, "Unauthorised")
         ELSE IF amount > listing.available_amount
         THEN Err(s, "InsufficientFunds")
         ELSE IF env_transfer_is_err(s, amount, host_refuses)
              THEN Panic(s)
              ELSE Ok(env_transfer(s, listing.vendor, amount))

withdraw_from_listing_IgnoresTransferError(s, caller, id, amount, host_refuses) ==
    IF ~Mapping_contains(s.listings.values, id)
    THEN Err(s, "ListingNotFound")
    ELSE LET listing == s.listings.values[id] IN
         IF listing.vendor # caller
         THEN Err(s, "Unauthorised")
         ELSE IF amount > listing.available_amount
         THEN Err(s, "InsufficientFunds")
         ELSE LET updated == [listing EXCEPT !.available_amount = @ - amount]
                  s1 == [s EXCEPT !.listings = Listings_update(@, updated)]
              IN  IF env_transfer_is_err(s1, amount, host_refuses)
                  THEN Ok(s1)
                  ELSE Ok(env_transfer(s1, updated.vendor, amount))

\* withdraw_from_listing without the InsufficientFunds check: what the contract
\* holds for orders can be paid out too.
withdraw_from_listing_PaysReserved(s, caller, id, amount, host_refuses) ==
    IF ~Mapping_contains(s.listings.values, id)
    THEN Err(s, "ListingNotFound")
    ELSE LET listing == s.listings.values[id] IN
         IF listing.vendor # caller
         THEN Err(s, "Unauthorised")
         ELSE LET updated == [listing EXCEPT !.available_amount =
                                  saturating_sub(@, amount)]
                  s1 == [s EXCEPT !.listings = Listings_update(@, updated)]
              IN  IF env_transfer_is_err(s1, amount, host_refuses)
                  THEN Panic(s1)
                  ELSE Ok(env_transfer(s1, updated.vendor, amount))

withdraw_from_listing(s, caller, id, amount, host_refuses) ==
    IF ~Mapping_contains(s.listings.values, id)
    THEN Err(s, "ListingNotFound")
    ELSE LET listing == s.listings.values[id] IN
         IF listing.vendor # caller
         THEN Err(s, "Unauthorised")
         ELSE IF amount > listing.available_amount
         THEN Err(s, "InsufficientFunds")
         ELSE LET updated == [listing EXCEPT !.available_amount = @ - amount]
                  s1 == [s EXCEPT !.listings = Listings_update(@, updated)]
              IN  IF env_transfer_is_err(s1, amount, host_refuses)
                  THEN Panic(s1)
                  ELSE Ok(env_transfer(s1, updated.vendor, amount))

\* ---- the state machine -----------------------------------------------------
NoCall == [op |-> "new", caller |-> "", id |-> 0, amount |-> 0, value |-> 0,
           evidence |-> 0, page |-> 0, size |-> 0, returned |-> <<>>,
           result |-> "Ok",
           wrote |-> FALSE]

Init ==
    /\ \E caller \in Accounts :
          /\ admin = new(caller).admin
          /\ vendors = new(caller).vendors
          /\ listings = new(caller).listings
          /\ orders = new(caller).orders
          /\ balance = new(caller).balance
          /\ pre = new(caller)
          /\ last = [NoCall EXCEPT !.caller = caller]

\* One transaction: the body ran from `entry` and handed back `out`; the host
\* commits or reverts; `pre` keeps the state before the call and `last` the
\* call.  wrote: the body had changed the state when it returned.
Transaction(call, entry, out) ==
    LET s2 == ink_message(State, out) IN
    /\ admin' = s2.admin
    /\ vendors' = s2.vendors
    /\ listings' = s2.listings
    /\ orders' = s2.orders
    /\ balance' = s2.balance
    /\ pre' = State
    /\ last' = [call EXCEPT !.result = out.result, !.wrote = (out.state # entry)]

CreateVendor ==
    \E caller \in Accounts :
        Transaction([NoCall EXCEPT !.op = "create_vendor", !.caller = caller],
                    State, create_vendor(State, caller))

CreateListing ==
    \E caller \in Accounts, overflow_checks \in BOOLEAN :
        Transaction([NoCall EXCEPT !.op = "create_listing", !.caller = caller],
                    State, create_listing(State, caller, overflow_checks))

CreateOrder ==
    \E caller \in Accounts, listing_id \in 0..listings.length,
       amount \in 0..MaxAmount, overflow_checks \in BOOLEAN :
        LET out == create_order(State, caller, listing_id, amount, overflow_checks) IN
        /\ out.result = "Ok" => orders.length < MaxOrders
        /\ Transaction([NoCall EXCEPT !.op = "create_order", !.caller = caller,
                                      !.id = listing_id, !.amount = amount],
                       State, out)

DepositIntoListing ==
    \E caller \in Accounts, id \in 0..listings.length :
        \E value \in 0..balance[caller] :
            LET entry == env_transferred_value(State, caller, value) IN
            Transaction([NoCall EXCEPT !.op = "deposit_into_listing",
                                       !.caller = caller, !.id = id,
                                       !.value = value],
                        entry, deposit_into_listing(entry, caller, id, value))

UpdateOrderPaymentVerification ==
    \E caller \in Accounts, order_id \in 0..orders.length, evidence \in Evidence :
        Transaction([NoCall EXCEPT !.op = "update_order_payment_verification",
                                   !.caller = caller, !.id = order_id,
                                   !.evidence = evidence],
                    State,
                    update_order_payment_verification(State, caller, order_id, evidence))

WithdrawFromListing ==
    \E caller \in Accounts, id \in 0..listings.length, amount \in 0..MaxAmount,
       host_refuses \in BOOLEAN :
        Transaction([NoCall EXCEPT !.op = "withdraw_from_listing",
                                   !.caller = caller, !.id = id,
                                   !.amount = amount],
                    State,
                    withdraw_from_listing(State, caller, id, amount, host_refuses))

Next ==
    \/ CreateVendor
    \/ CreateListing
    \/ CreateOrder
    \/ DepositIntoListing
    \/ UpdateOrderPaymentVerification
    \/ WithdrawFromListing

Spec == Init /\ [][Next]_vars

\* The settlement and dispute collaborators are outside this contract; they
\* change an order's status by calling Orders::update directly, as the tests
\* do (lib.rs:581-607).
ExternalOrdersUpdate ==
    \E order_id \in (DOMAIN orders.values) \cap (0..MaxExternalOrderId),
       status \in {Finalised, Cancelled, Disputed} :
        LET order == [orders.values[order_id] EXCEPT !.status = status]
            s1 == [State EXCEPT !.orders = Orders_update(@, order)]
        IN  Transaction([NoCall EXCEPT !.op = "orders_update", !.id = order_id],
                        State, Ok(s1))

NextExt == Next \/ ExternalOrdersUpdate

\* The contract as the tests construct it: deployed by bob (lib.rs:403-408).
InitExt == Init /\ admin = "bob"

SpecExt == InitExt /\ [][NextExt]_vars

\* ---- the ledgers as index sees them ------------------------------------------
\* The state after bob has deployed the contract, registered as a vendor and
\* created m listings, and alice has placed n orders of amount 0 on listing 0.
Populated(m, n) ==
    [new("bob") EXCEPT
        !.vendors = {"bob"},
        !.listings = [values |-> [k \in 0..(m - 1) |->
                                    [id |-> k, vendor |-> "bob",
                                     available_amount |-> 0]],
                      length |-> m],
        !.orders = [values |-> [k \in 0..(n - 1) |->
                                  [id |-> k, buyer |-> "alice", vendor |-> "bob",
                                   amount |-> 0, payment_verification |-> None,
                                   status |-> Open]],
                    length |-> n]]

StartFrom(s) ==
    /\ admin = s.admin
    /\ vendors = s.vendors
    /\ listings = s.listings
    /\ orders = s.orders
    /\ balance = s.balance
    /\ pre = s
    /\ last = [NoCall EXCEPT !.caller = s.admin]

InitIndex ==
    \E m \in 0..U32_MAX, n \in 0..MaxLedgerLength :
        /\ n > 0 => m > 0
        /\ StartFrom(Populated(m, n))

\* A read: the state stays, `last` records the query and what came back.
Query(call, out) ==
    /\ pre' = State
    /\ last' = [call EXCEPT !.result = out.result, !.returned = out.returned]
    /\ UNCHANGED <<admin, vendors, listings, orders, balance>>

ListingsIndex ==
    \E page \in 0..U32_MAX, size \in 0..MaxSize :
        Query([NoCall EXCEPT !.op = "Listings_index", !.page = page, !.size = size],
              Listings_index(listings, page, size))

OrdersIndex ==
    \E page \in 0..MaxPage, size \in 0..MaxSize :
        Query([NoCall EXCEPT !.op = "Orders_index", !.page = page, !.size = size],
              Orders_index(orders, page, size))

NextIndex == ListingsIndex \/ OrdersIndex

SpecIndex == InitIndex /\ [][NextIndex]_vars

\* ---- the ledgers at capacity ---------------------------------------------------
\* The creating messages on an order ledger that is one record short of the
\* width of its counter, or at it.  No cap on the orders here: the counter's
\* own width bounds them.
InitCap ==
    \E m \in 1..U32_MAX, n \in {U64_MAX - 1, U64_MAX} :
        StartFrom(Populated(m, n))

CreateOrderAtCapacity ==
    \E caller \in Accounts, listing_id \in 0..listings.length,
       amount \in 0..MaxAmount, overflow_checks \in BOOLEAN :
        Transaction([NoCall EXCEPT !.op = "create_order", !.caller = caller,
                                   !.id = listing_id, !.amount = amount],
                    State,
                    create_order(State, caller, listing_id, amount, overflow_checks))

NextCap == CreateVendor \/ CreateListing \/ CreateOrderAtCapacity

SpecCap == InitCap /\ [][NextCap]_vars

\* ---- properties ------------------------------------------------------------
Succeeded(op) == last.op = op /\ last.result = "Ok"

\* The listing a listing message was aimed at existed before the call.
OnExistingListing == Mapping_contains(pre.listings.values, last.id)
PreListing == pre.listings.values[last.id]

\* C1: every listing's available_amount is >= 0, and no create_order or
\* withdraw_from_listing returns Ok when the requested amount is greater than
\* the listing's available_amount at the time of the call.
C1_AvailableAmountNeverOverdrawn ==
    /\ \A id \in DOMAIN listings.values :
          listings.values[id].available_amount >= 0
    /\ (Succeeded("create_order") \/ Succeeded("withdraw_from_listing")) =>
          /\ OnExistingListing
          /\ last.amount <= PreListing.available_amount

\* A buyer asked for more than a funded listing had available and was refused.
C1_Witness ==
    /\ last.op = "create_order"
    /\ OnExistingListing
    /\ PreListing.available_amount > 0
    /\ last.amount > PreListing.available_amount
    /\ last.result = "AmountUnavailable"

\* C2: a call that returns a typed error leaves the whole state as it was
\* before the call (vendors, both ledgers and their lengths, admin, native
\* balances), and its body had written nothing when it returned.
C2_TypedErrorChangesNothing ==
    last.result \in TypedErrors => (State = pre /\ ~last.wrote)

\* A deposit with value attached was refused as Unauthorised.
C2_Witness ==
    /\ last.op = "deposit_into_listing"
    /\ last.result = "Unauthorised"
    /\ last.value > 0

\* C3: a successful create_order decreases the listing's available_amount by
\* exactly amount, appends exactly one order at id = previous order length
\* with buyer = caller, vendor = listing.vendor, amount, no
\* payment_verification and status Open, increases the order length by one and
\* moves no native currency.
C3_CreateOrderEffect ==
    Succeeded("create_order") =>
        LET n == pre.orders.length IN
        /\ listings.values[last.id].available_amount =
              PreListing.available_amount - last.amount
        /\ orders.length = n + 1
        /\ ~Mapping_contains(pre.orders.values, n)
        /\ DOMAIN orders.values = (DOMAIN pre.orders.values) \cup {n}
        /\ orders.values[n] =
              [id |-> n, buyer |-> last.caller, vendor |-> PreListing.vendor,
               amount |-> last.amount, payment_verification |-> None,
               status |-> Open]
        /\ \A k \in DOMAIN pre.orders.values :
              orders.values[k] = pre.orders.values[k]
        /\ balance = pre.balance

\* An order for a positive amount was created.
C3_Witness == Succeeded("create_order") /\ last.amount > 0

\* C4: a successful withdraw_from_listing decreases the listing's
\* available_amount by exactly amount and pays exactly amount from the
\* contract to listing.vendor; the vendor asking for more than is available
\* gets InsufficientFunds and nothing is paid.
C4_WithdrawEffect ==
    /\ Succeeded("withdraw_from_listing") =>
          /\ PreListing.vendor = last.caller
          /\ listings.values[last.id].available_amount =
                PreListing.available_amount - last.amount
          /\ balance[PreListing.vendor] =
                pre.balance[PreListing.vendor] + last.amount
          /\ balance[Contract] = pre.balance[Contract] - last.amount
          /\ \A a \in Accounts \ {PreListing.vendor} : balance[a] = pre.balance[a]
    /\ ( /\ last.op = "withdraw_from_listing"
         /\ OnExistingListing
         /\ PreListing.vendor = last.caller
         /\ last.amount > PreListing.available_amount ) =>
          /\ last.result = "InsufficientFunds"
          /\ balance = pre.balance
          /\ listings = pre.listings

\* The vendor withdrew a positive amount.
C4_Witness == Succeeded("withdraw_from_listing") /\ last.amount > 0

\* C5: a withdrawal whose transfer fails aborts (neither Ok nor a typed error)
\* and leaves the state as before the call; in every committed state the
\* listing has been decremented by exactly what was paid to its vendor.
C5_FailedTransferRollsBack ==
    (last.op = "withdraw_from_listing" /\ OnExistingListing) =>
        /\ last.result = "Panic" => State = pre
        /\ PreListing.available_amount - listings.values[last.id].available_amount
              = balance[PreListing.vendor] - pre.balance[PreListing.vendor]
        /\ PreListing.available_amount - listings.values[last.id].available_amount
              = pre.balance[Contract] - balance[Contract]

\* The transfer of a positive, available amount failed and the call aborted.
C5_Witness ==
    /\ last.op = "withdraw_from_listing"
    /\ last.result = "Panic"
    /\ last.amount > 0

\* C6: a successful deposit_into_listing increases that listing's
\* available_amount by exactly the value attached to the call and changes no
\* other listing, no order, not the vendor set and neither length counter.
C6_DepositEffect ==
    Succeeded("deposit_into_listing") =>
        /\ OnExistingListing
        /\ listings.values[last.id] =
              [PreListing EXCEPT !.available_amount = @ + last.value]
        /\ DOMAIN listings.values = DOMAIN pre.listings.values
        /\ \A k \in (DOMAIN pre.listings.values) \ {last.id} :
              listings.values[k] = pre.listings.values[k]
        /\ listings.length = pre.listings.length
        /\ orders = pre.orders
        /\ vendors = pre.vendors

\* A vendor with two listings deposited a positive value into the second.
C6_Witness ==
    /\ Succeeded("deposit_into_listing")
    /\ last.value > 0
    /\ last.id = 1

\* The order update_order_payment_verification was aimed at existed before
\* the call.
OnExistingOrder == Mapping_contains(pre.orders.values, last.id)
PreOrder == pre.orders.values[last.id]

\* C7: update_order_payment_verification by the buyer of an existing order
\* returns OrderFinalised in status Finalised, OrderCancelled in status
\* Cancelled, and in Open, PendingVerification and Disputed returns Ok, stores
\* the evidence and sets the status to PendingVerification.
C7_PaymentVerificationByStatus ==
    ( /\ last.op = "update_order_payment_verification"
      /\ OnExistingOrder
      /\ PreOrder.buyer = last.caller ) =>
        /\ PreOrder.status = Finalised => last.result = "OrderFinalised"
        /\ PreOrder.status = Cancelled => last.result = "OrderCancelled"
        /\ PreOrder.status \in {Open, PendingVerification, Disputed} =>
              /\ last.result = "Ok"
              /\ orders.values[last.id].payment_verification = Some(last.evidence)
              /\ orders.values[last.id].status = PendingVerification

\* The buyer of a Disputed order submitted evidence and the order went back
\* to PendingVerification.
C7_Witness ==
    /\ Succeeded("update_order_payment_verification")
    /\ PreOrder.status = Disputed
    /\ orders.values[last.id].status = PendingVerification

\* C8: through the public messages alone every order starts Open, every
\* order's status is Open or PendingVerification, and an order that has
\* reached PendingVerification never returns to Open.
C8_StatusOpenOrPending ==
    /\ \A k \in DOMAIN orders.values :
          orders.values[k].status \in {Open, PendingVerification}
    /\ \A k \in (DOMAIN orders.values) \ (DOMAIN pre.orders.values) :
          orders.values[k].status = Open
    /\ \A k \in DOMAIN pre.orders.values :
          pre.orders.values[k].status = PendingVerification =>
              orders.values[k].status = PendingVerification

\* The buyer submitted evidence again for an order already in
\* PendingVerification.
C8_Witness ==
    /\ Succeeded("update_order_payment_verification")
    /\ PreOrder.status = PendingVerification

\* C9: an order's id, buyer, vendor and amount and a listing's id and vendor
\* never change; update_order_payment_verification changes nothing but the
\* payment_verification and status of the order it names.
C9_ImmutableFields ==
    /\ \A k \in DOMAIN pre.orders.values :
          /\ Mapping_contains(orders.values, k)
          /\ orders.values[k].id = pre.orders.values[k].id
          /\ orders.values[k].buyer = pre.orders.values[k].buyer
          /\ orders.values[k].vendor = pre.orders.values[k].vendor
          /\ orders.values[k].amount = pre.orders.values[k].amount
    /\ \A k \in DOMAIN pre.listings.values :
          /\ Mapping_contains(listings.values, k)
          /\ listings.values[k].id = pre.listings.values[k].id
          /\ listings.values[k].vendor = pre.listings.values[k].vendor
    /\ last.op = "update_order_payment_verification" =>
          /\ [State EXCEPT !.orders = pre.orders] = pre
          /\ orders.length = pre.orders.length
          /\ DOMAIN orders.values = DOMAIN pre.orders.values
          /\ \A k \in (DOMAIN pre.orders.values) \ {last.id} :
                orders.values[k] = pre.orders.values[k]

\* Evidence was stored for an order that reserves a positive amount.
C9_Witness ==
    /\ Succeeded("update_order_payment_verification")
    /\ PreOrder.amount > 0
    /\ orders.values[last.id] # PreOrder

\* C10: create_vendor by an account not yet in the vendor set returns Ok and
\* adds exactly that account; by an account already in it returns
\* VendorAlreadyExists and changes nothing; no other message changes the
\* vendor set, and no account ever leaves it.
C10_VendorRegistration ==
    /\ pre.vendors \subseteq vendors
    /\ last.op = "create_vendor" =>
          IF last.caller \in pre.vendors
          THEN last.result = "VendorAlreadyExists" /\ State = pre
          ELSE last.result = "Ok" /\ vendors = pre.vendors \cup {last.caller}
    /\ last.op # "create_vendor" => vendors = pre.vendors

\* A registered vendor called create_vendor a second time.
C10_Witness ==
    /\ last.op = "create_vendor"
    /\ last.result = "VendorAlreadyExists"
    /\ last.caller \in vendors

C12_ListingCapacity ==
    last.op = "create_listing" =>
        /\ pre.listings.length = U32_MAX =>
              /\ last.result = "ListingLimitReached"
              /\ State = pre
        /\ (pre.listings.length = U32_MAX - 1 /\ last.caller \in pre.vendors) =>
              /\ last.result = "Ok"
              /\ Mapping_contains(listings.values, U32_MAX - 1)
              /\ listings.values[U32_MAX - 1].vendor = last.caller
              /\ listings.length = U32_MAX

\* An account that is no vendor called create_listing on the full ledger.
C12_Witness ==
    /\ last.op = "create_listing"
    /\ pre.listings.length = U32_MAX
    /\ last.caller \notin pre.vendors
    /\ last.result = "ListingLimitReached"

\* C16: create_order by the vendor of the listing returns Unauthorised for
\* every amount, available or not, and every order has buyer # vendor.
C16_VendorCannotBuyOwnListing ==
    /\ (last.op = "create_order" /\ OnExistingListing
        /\ PreListing.vendor = last.caller) =>
          /\ last.result = "Unauthorised"
          /\ State = pre
    /\ \A k \in DOMAIN orders.values :
          orders.values[k].buyer # orders.values[k].vendor

\* A vendor asked for an available, positive amount of its own listing.
C16_Witness ==
    /\ last.op = "create_order"
    /\ OnExistingListing
    /\ PreListing.vendor = last.caller
    /\ last.amount > 0
    /\ last.amount <= PreListing.available_amount
    /\ last.result = "Unauthorised"

\* C17: deposit_into_listing and withdraw_from_listing on an existing listing
\* by anyone but its vendor, and update_order_payment_verification on an
\* existing order by anyone but its buyer, in whatever status, return
\* Unauthorised; a listing's available_amount changes only in a deposit or
\* withdrawal by its vendor or a create_order by someone else.
C17_OnlyOwnerMutates ==
    /\ ( /\ last.op \in {"deposit_into_listing", "withdraw_from_listing"}
         /\ OnExistingListing
         /\ PreListing.vendor # last.caller ) => last.result = "Unauthorised"
    /\ ( /\ last.op = "update_order_payment_verification"
         /\ OnExistingOrder
         /\ PreOrder.buyer # last.caller ) => last.result = "Unauthorised"
    /\ \A k \in DOMAIN pre.listings.values :
          listings.values[k].available_amount
                # pre.listings.values[k].available_amount =>
              /\ last.id = k
              /\ \/ /\ last.op \in {"deposit_into_listing", "withdraw_from_listing"}
                    /\ last.caller = pre.listings.values[k].vendor
                 \/ /\ last.op = "create_order"
                    /\ last.caller # pre.listings.values[k].vendor

\* Someone other than the buyer submitted evidence for a Finalised order.
C17_Witness ==
    /\ last.op = "update_order_payment_verification"
    /\ OnExistingOrder
    /\ PreOrder.buyer # last.caller
    /\ PreOrder.status = Finalised
    /\ last.result = "Unauthorised"

\* Every listing's vendor and every order's vendor is a registered vendor, and
\* a listing is created with available_amount 0.
ListingsBelongToVendors ==
    /\ \A k \in DOMAIN listings.values : listings.values[k].vendor \in vendors
    /\ \A k \in DOMAIN orders.values : orders.values[k].vendor \in vendors
    /\ Succeeded("create_listing") =>
          listings.values[pre.listings.length].available_amount = 0

\* C18 as stated: create_listing by a caller that is no registered vendor
\* returns ListingCanOnlyBeCreatedByAVendor and creates nothing; every
\* listing's and order's vendor is a registered vendor; a new listing has
\* available_amount 0.
C18_Original ==
    /\ (last.op = "create_listing" /\ last.caller \notin pre.vendors) =>
          /\ last.result = "ListingCanOnlyBeCreatedByAVendor"
          /\ State = pre
    /\ ListingsBelongToVendors

\* C18 as amended: create_listing by a caller that is no registered vendor
\* creates nothing and returns ListingCanOnlyBeCreatedByAVendor while the
\* ledger is below its maximum length, ListingLimitReached once it is full;
\* every listing's and order's vendor is a registered vendor; a new listing
\* has available_amount 0.
C18_OnlyVendorsCreateListings ==
    /\ (last.op = "create_listing" /\ last.caller \notin pre.vendors) =>
          /\ last.result = IF pre.listings.length = U32_MAX
                           THEN "ListingLimitReached"
                           ELSE "ListingCanOnlyBeCreatedByAVendor"
          /\ State = pre
    /\ ListingsBelongToVendors

\* An account that is no vendor was refused while the ledger, already holding
\* a listing, had room for another.
C18_Witness ==
    /\ last.op = "create_listing"
    /\ last.caller \notin pre.vendors
    /\ pre.listings.length = 1
    /\ last.result = "ListingCanOnlyBeCreatedByAVendor"

\* C19: config() returns the account that called the constructor, and no
\* message changes what config() returns.
C19_AdminIsDeployer ==
    /\ last.op = "new" => config(State).admin = last.caller
    /\ config(State) = config(pre)

\* An account other than the admin registered as a vendor, and config() still
\* names the admin.
C19_Witness ==
    /\ Succeeded("create_vendor")
    /\ last.caller # config(State).admin
    /\ config(State).admin \in Accounts

\* The ledger an index query was put to, the width of its ids, and the ids of
\* the records that came back.
Indexed == last.op \in {"Listings_index", "Orders_index"}
IndexedLedger == IF last.op = "Listings_index" THEN listings ELSE orders
IndexedMax == IF last.op = "Listings_index" THEN U32_MAX ELSE U64_MAX
ReturnedIds == [j \in 1..Len(last.returned) |-> last.returned[j].id]

\* C13: on a ledger of length 10, index(page=0, size=5) returns the records
\* with ids 9,8,7,6,5,4 in that order and index(page=1, size=5) those with ids
\* 4,3,2,1,0 in that order.
C13_PaginationExample ==
    (Indexed /\ IndexedLedger.length = 10 /\ last.size = 5) =>
        /\ last.page = 0 =>
              last.result = "Ok" /\ ReturnedIds = <<9, 8, 7, 6, 5, 4>>
        /\ last.page = 1 =>
              last.result = "Ok" /\ ReturnedIds = <<4, 3, 2, 1, 0>>

\* C14: index returns the empty sequence whenever the ledger is empty,
\* whenever page*size overflows the id width, and whenever page*size is
\* greater than the length.
C14_IndexEmpty ==
    ( /\ Indexed
      /\ \/ IndexedLedger.length = 0
         \/ last.page * last.size > IndexedMax
         \/ last.page * last.size > IndexedLedger.length ) =>
        /\ last.result = "Ok"
        /\ last.returned = <<>>

\* The product page*size did not fit the id width on a ledger that holds
\* records.
C14_Witness ==
    /\ last.op = "Orders_index"
    /\ orders.length = MaxLedgerLength
    /\ last.page * last.size > U64_MAX
    /\ last.result = "Ok"
    /\ last.returned = <<>>

\* C15: on a ledger of length >= 1, for skip = page*size that does not
\* overflow and is at most the length, index returns exactly the stored records
\* with ids start..=end in descending order, end = length - skip and
\* start = max(0, end - size), hence end - start + 1 <= size + 1 records.
C15_IndexRange ==
    ( /\ Indexed
      /\ IndexedLedger.length >= 1
      /\ last.page * last.size <= IndexedMax
      /\ last.page * last.size <= IndexedLedger.length ) =>
        LET end == IndexedLedger.length - last.page * last.size
            start == IF end - last.size > 0 THEN end - last.size ELSE 0
        IN  /\ last.result = "Ok"
            /\ Len(last.returned) = end - start + 1
            /\ Len(last.returned) <= last.size + 1
            /\ \A j \in 1..Len(last.returned) :
                  /\ Mapping_contains(IndexedLedger.values, end - (j - 1))
                  /\ last.returned[j] = IndexedLedger.values[end - (j - 1)]

\* create_listing on a full listing ledger reports ListingLimitReached, so
\* Listings::create never runs with length at the maximum and the listing
\* counter never wraps.
ListingCreateIsPreChecked ==
    /\ (last.op = "create_listing" /\ pre.listings.length = U32_MAX) =>
          last.result = "ListingLimitReached"
    /\ listings.length >= pre.listings.length

RECURSIVE Sum(_, _)
Sum(f, keys) ==
    IF keys = {} THEN 0
    ELSE LET k == CHOOSE x \in keys : TRUE IN f[k] + Sum(f, keys \ {k})

\* The sum of all listings' available_amount and the sum of all orders' amount.
AvailableTotal(s) ==
    Sum([k \in DOMAIN s.listings.values |->
            s.listings.values[k].available_amount], DOMAIN s.listings.values)
ReservedTotal(s) ==
    Sum([k \in DOMAIN s.orders.values |-> s.orders.values[k].amount],
        DOMAIN s.orders.values)

\* What the orders placed with a vendor have reserved.
ReservedWith(s, vendor) ==
    LET placed == {k \in DOMAIN s.orders.values :
                      s.orders.values[k].vendor = vendor}
    IN  Sum([k \in placed |-> s.orders.values[k].amount], placed)

\* The listing of the last call is the only listing of its vendor, so that the
\* orders placed with the vendor are the orders of this listing.
OnlyListingOfVendor ==
    \A k \in DOMAIN pre.listings.values :
        pre.listings.values[k].vendor = PreListing.vendor => k = last.id

\* C21 as stated: once create_order has reserved value from a listing, the
\* listing's vendor can be paid that reserved value through
\* withdraw_from_listing: a withdrawal by the vendor of no more than the
\* listing's available_amount plus what its orders have reserved is not turned
\* down for insufficient funds.
C21_Original ==
    ( /\ last.op = "withdraw_from_listing"
      /\ OnExistingListing
      /\ PreListing.vendor = last.caller
      /\ OnlyListingOfVendor
      /\ ReservedWith(pre, last.caller) > 0
      /\ last.amount <= PreListing.available_amount
                           + ReservedWith(pre, last.caller) ) =>
        last.result # "InsufficientFunds"

\* C21 as amended: withdraw_from_listing pays out available value only.  A
\* successful withdrawal pays no more than the listing's available_amount and
\* leaves every order as it was, no call lowers what the orders have reserved,
\* and the contract always holds at least the sum of the orders' amounts: the
\* total withdrawn never exceeds the total deposited minus the amounts
\* reserved.
C21_ReservedValueStaysInEscrow ==
    /\ balance[Contract] >= ReservedTotal(State)
    /\ ReservedTotal(State) >= ReservedTotal(pre)
    /\ Succeeded("withdraw_from_listing") =>
          /\ last.amount <= PreListing.available_amount
          /\ orders = pre.orders

\* The vendor withdrew from a listing while value reserved by an order placed
\* with them stayed behind in the contract.
C21_Witness ==
    /\ Succeeded("withdraw_from_listing")
    /\ last.amount > 0
    /\ ReservedWith(pre, last.caller) > 0
    /\ balance[Contract] >= ReservedWith(State, last.caller)

\* What the contract holds for its listings and orders, and what the last call
\* brought in (value attached to a successful deposit) and paid out (amount of
\* a successful withdrawal).
Held(s) == AvailableTotal(s) + ReservedTotal(s)
DepositedByLast == IF Succeeded("deposit_into_listing") THEN last.value ELSE 0
PaidOutByLast == IF Succeeded("withdraw_from_listing") THEN last.amount ELSE 0

\* C22: conservation of value.  Every call changes the sum of all listings'
\* available_amount plus the sum of all orders' amount by exactly the value
\* attached to a successful deposit minus the amount paid out by a successful
\* withdrawal, starting from nothing held, so that sum plus the total paid out
\* equals the total deposited; it equals the contract's native balance, which
\* is therefore at least the sum of all available_amount; and a withdrawal
\* that passes the InsufficientFunds check asks for no more than the contract
\* holds.
C22_ConservationOfValue ==
    /\ last.op = "new" => Held(State) = 0
    /\ Held(State) = Held(pre) + DepositedByLast - PaidOutByLast
    /\ Held(State) = balance[Contract]
    /\ balance[Contract] >= AvailableTotal(State)
    /\ ( /\ last.op = "withdraw_from_listing"
         /\ OnExistingListing
         /\ PreListing.vendor = last.caller
         /\ last.amount <= PreListing.available_amount ) =>
          last.amount <= pre.balance[Contract]

\* Value was deposited, part of it reserved by an order, part of it withdrawn
\* and part of it still available.
C22_Witness ==
    /\ Succeeded("withdraw_from_listing")
    /\ last.amount > 0
    /\ ReservedTotal(State) > 0
    /\ AvailableTotal(State) > 0

\* C23: pagination is total.  For every ledger and every (page, size),
\* page = 0 and size = 0 on a non-empty ledger included, index completes and
\* returns a sequence: it never looks up an id at which no record is stored,
\* every id it reads being below the length.
C23_PaginationIsTotal ==
    Indexed =>
        /\ last.result = "Ok"
        /\ \A j \in 1..Len(last.returned) :
              last.returned[j].id < IndexedLedger.length

====
